---- MODULE Spec2Model ----
(***************************************************************************)
(* Model of the delexi proxy (src/server.js): the process-wide token cache *)
(* (cachedToken, cachedExpiry), getAppToken, and the handler of            *)
(* GET /api/playlist/:id.  Every `await` of the source is a suspension     *)
(* point, so each action is the synchronous code between two awaits.       *)
(*                                                                         *)
(* JavaScript values that may be of several types are tagged records       *)
(* [t |-> type, v |-> value]; text that the code transforms character by   *)
(* character (the market code) is a sequence of one-character strings.     *)
(* Time is Date.now() in milliseconds.                                     *)
(***************************************************************************)
EXTENDS Integers, Sequences, FiniteSets, TLC

\* ---------------------------------------------------------------- bounds
NumSlots == 2
MaxTicks == 2

Slots == 1..NumSlots

\* ------------------------------------------------------------- JS values
Undef == [t |-> "undefined"]
Str(s) == [t |-> "string", v |-> s]
Arr(a) == [t |-> "array", v |-> a]

\* JavaScript truthiness of a query/env value: undefined and "" are falsy,
\* every array is truthy.
Truthy(x) == \/ x.t = "array"
             \/ x.t = "string" /\ Len(x.v) > 0

\* the letters the inputs use, lower case to upper case
UpperOf == ("a" :> "A") @@ ("b" :> "B") @@ ("c" :> "C") @@ ("d" :> "D") @@
           ("e" :> "E") @@ ("f" :> "F") @@ ("g" :> "G") @@ ("i" :> "I") @@
           ("r" :> "R") @@ ("s" :> "S") @@ ("t" :> "T") @@ ("u" :> "U") @@
           ("x" :> "X")

\* String.prototype.toUpperCase
toUpperCase(s) ==
  [i \in 1..Len(s) |-> IF s[i] \in DOMAIN UpperOf THEN UpperOf[s[i]] ELSE s[i]]

\* ------------------------------------------------------------- constants
FR == <<"F", "R">>
ALLOWED_MARKETS == { <<"F","R">>, <<"U","S">>, <<"C","A">>, <<"B","R">>,
                     <<"G","B">>, <<"D","E">>, <<"E","S">>, <<"I","T">> }

\* (process.env.DEFAULT_MARKET || "FR").toUpperCase()
DEFAULT_MARKET(env) == toUpperCase(IF Truthy(env) THEN env.v ELSE FR)

\* cachedToken = null
NoToken == "<null>"

\* ------------------------------------------------------ environment inputs
\* process.env.DEFAULT_MARKET: unset, a supported code in lower case, or a
\* code outside the supported set
EnvDefaults == { Undef, Str(<<"d","e">>), Str(<<"x","x">>) }

\* req.query.market: absent, empty, lower and upper case supported codes, an
\* unsupported code, and a repeated parameter (parsed as a list)
Markets == { Undef, Str(<<>>), Str(<<"u","s">>), Str(<<"G","B">>),
             Str(<<"x","x">>), Arr(<< <<"u","s">>, <<"f","r">> >>) }

\* access_token values of successful exchanges (non-empty strings)
Tokens == { "T1", "T2" }
\* expires_in values (seconds) of successful exchanges
ExpiresIn == { 60, 61, 3600 }
\* statuses and body texts the token endpoint may answer with
TokenStatuses == { 200, 400, 503 }
TokenTexts == { "", "invalid_client" }
\* statuses and body texts the resource endpoint may answer with
ResourceStatuses == { 200, 401, 404 }
ResourceTexts == { "", "Not found" }

\* ------------------------------------------------------------------ state
VARIABLES
  envDefault,     \* process.env.DEFAULT_MARKET
  cachedToken,    \* let cachedToken
  cachedExpiry,   \* let cachedExpiry (ms)
  now,            \* Date.now() (ms)
  ticks,          \* number of clock advances so far (bounded)
  pc,             \* per request: position of its handler
  query,          \* per request: req.query.market
  loc,            \* per request: the live locals of getAppToken and the handler
  sent,           \* per request: upstream calls issued for it, in order
  resp,           \* per request: responses written to the caller, in order
  grant           \* the token endpoint's side of the cached credential:
                  \* when it was issued, for how long, when it was recorded

vars == << envDefault, cachedToken, cachedExpiry, now, ticks,
           pc, query, loc, sent, resp, grant >>

\* the locals of a handler that has not run yet: token (handler), res/r
\* (status and body of the response being read), e (what getAppToken threw)
NoError == [name |-> "", message |-> ""]
\* issued: the instant the token endpoint's answer arrived
InitLoc == [token |-> "", status |-> 0, body |-> Undef, e |-> NoError, issued |-> 0]
NoGrant == [issued |-> 0, expires_in |-> 0, written |-> 0]

InitWith(envs) ==
  /\ envDefault \in envs
  /\ cachedToken = NoToken
  /\ cachedExpiry = 0
  /\ now = 1
  /\ ticks = 0
  /\ pc = [r \in Slots |-> "idle"]
  /\ query = [r \in Slots |-> Undef]
  /\ loc = [r \in Slots |-> InitLoc]
  /\ sent = [r \in Slots |-> << >>]
  /\ resp = [r \in Slots |-> << >>]
  /\ grant = NoGrant

\* ---------------------------------------------------------------- helpers
\* res.ok / r.ok of a fetch response
Ok(status) == status >= 200 /\ status <= 299

\* the fast path with its comparison reversed, and with the expiry instant
\* itself still counted as valid
CacheValidReversed(tok, t, exp) == tok # NoToken /\ tok # "" /\ t > exp
CacheValidInclusive(tok, t, exp) == tok # NoToken /\ tok # "" /\ t <= exp

\* the test of the fast path: cachedToken && now < cachedExpiry
CacheValid(tok, t, exp) == tok # NoToken /\ tok # "" /\ t < exp

\* the expiry without the 60 s margin
ExpiryNoMargin(t, d) == t + d * 1000

\* the expiry with a margin of 60 ms
ExpiryMarginMillis(t, d) == t + d * 1000 - 60

\* Date.now() + (data.expires_in - 60) * 1000
ExpiryOf(t, d) == t + (d - 60) * 1000

\* new Error(`Erreur token: ${res.status} ${txt}`)
TokenError(status, txt) ==
  [name |-> "Error",
   message |-> "Erreur token: " \o ToString(status) \o " " \o txt]

\* what a rejected fetch, text() or json() throws (node-fetch)
NetworkError == [name |-> "FetchError", message |-> "request failed"]
JsonError == [name |-> "FetchError", message |-> "invalid json response body"]
\* calling toUpperCase on a value that has none
NotAFunction == [name |-> "TypeError", message |-> "toUpperCase is not a function"]

\* the message alone instead of String(e)
MessageOfError(e) == e.message

\* String(e) for an Error object (Error.prototype.toString)
StringOfError(e) ==
  IF e.message = "" THEN e.name ELSE e.name \o ": " \o e.message

\* the resolution without the upper-casing
ResolveNoUpper(q, dflt) ==
  LET mk == IF Truthy(q) THEN q.v ELSE dflt
  IN  IF mk \in ALLOWED_MARKETS THEN mk ELSE dflt

\* let mk = (req.query.market || DEFAULT_MARKET).toUpperCase();
\* if (!ALLOWED_MARKETS.has(mk)) mk = DEFAULT_MARKET;
\* (defined for the values that have toUpperCase: strings)
ResolveMarket(q, dflt) ==
  LET mk == toUpperCase(IF Truthy(q) THEN q.v ELSE dflt)
  IN  IF mk \in ALLOWED_MARKETS THEN mk ELSE dflt

\* (req.query.market || DEFAULT_MARKET).toUpperCase() throws a TypeError
ResolveThrows(q) == Truthy(q) /\ q.t # "string"

\* the upstream calls
TokenPost == [to |-> "token"]
ResourceGet(mk, token) == [to |-> "resource", market |-> mk, bearer |-> token]

\* res.status(s).json(body) / res.json(body)
\* (the handler has nothing left to run: its locals are gone)
Respond(r, s, body) ==
  /\ resp' = [resp EXCEPT ![r] = Append(@, [status |-> s, body |-> body])]
  /\ loc' = [loc EXCEPT ![r] = InitLoc]
  /\ pc' = [pc EXCEPT ![r] = "done"]

\* a catch that answers nothing
CatchSilent(r, e) ==
  /\ loc' = [loc EXCEPT ![r] = InitLoc]
  /\ pc' = [pc EXCEPT ![r] = "done"]
  /\ UNCHANGED resp

\* no catch: the rejection goes unhandled and the request stays pending
CatchUnhandled(r, e) == UNCHANGED << pc, loc, resp >>

\* catch (e) { res.status(500).json({ error: String(e) }) }
Catch(r, e) == Respond(r, 500, [error |-> StringOfError(e)])

\* ------------------------------------------------------------- projection
\* Upstream documents are JSON values: tagged records, strings as TLA+
\* strings, objects as functions from field names, arrays as sequences.
Null == [t |-> "null"]
JStr(s) == [t |-> "string", v |-> s]
JNum(n) == [t |-> "number", v |-> n]
JObj(f) == [t |-> "object", v |-> f]
JArr(a) == [t |-> "array", v |-> a]

Nullish(x) == x.t \in {"undefined", "null"}
\* x?.f, and x.f for an x that is not nullish (x.f throws on a nullish x)
Get(x, f) == IF x.t = "object" /\ f \in DOMAIN x.v THEN x.v[f] ELSE Undef
\* x?.[i] with i counted from 0
At(x, i) == IF x.t = "array" /\ i + 1 <= Len(x.v) THEN x.v[i + 1] ELSE Undef
\* truthiness of a JSON value
JTruthy(x) == CASE x.t \in {"undefined", "null"} -> FALSE
                [] x.t = "string" -> x.v # ""
                [] x.t = "number" -> x.v # 0
                [] OTHER -> TRUE
\* a || b
OrElse(a, b) == IF JTruthy(a) THEN a ELSE b

\* full.tracks?.items || []
ItemsOf(full) == OrElse(Get(Get(full, "tracks"), "items"), JArr(<< >>))

RECURSIVE JoinNames(_)
\* names.join(", ") for an array of strings
JoinNames(names) ==
  IF Len(names) = 0 THEN ""
  ELSE IF Len(names) = 1 THEN names[1]
  ELSE names[1] \o ", " \o JoinNames(Tail(names))

\* String(x) as join uses it, for the element types the documents hold
\* (join renders undefined and null as the empty string)
JoinText(x) == IF x.t = "string" THEN x.v ELSE ""

\* it.track?.artists?.map(a => a.name).join(", ")
ArtistOf(track) ==
  LET artists == Get(track, "artists")
  IN  IF Nullish(artists) THEN Undef
      ELSE JStr(JoinNames([i \in 1..Len(artists.v) |->
                              JoinText(Get(artists.v[i], "name"))]))

\* one element of the tracks.items.map callback
TrackEntry(it, i) ==
  LET track == Get(it, "track")
  IN  [index |-> i,
       name |-> Get(track, "name"),
       artist |-> ArtistOf(track),
       duration_ms |-> Get(track, "duration_ms"),
       preview_url |-> Get(track, "preview_url"),
       external_url |-> Get(Get(track, "external_urls"), "spotify"),
       id |-> Get(track, "id")]

\* the construction of slim raises a TypeError: a nullish document, a truthy
\* items that is no array, a nullish item, an artists that is no array, or a
\* nullish artist
ProjectThrows(full) ==
  \/ Nullish(full)
  \/ ItemsOf(full).t # "array"
  \/ \E i \in 1..Len(ItemsOf(full).v) :
        LET it == ItemsOf(full).v[i]
            artists == Get(Get(it, "track"), "artists")
        IN  \/ Nullish(it)
            \/ ~Nullish(artists) /\ artists.t # "array"
            \/ artists.t = "array" /\ \E k \in 1..Len(artists.v) : Nullish(artists.v[k])

\* const slim = { ... }
Project(full) ==
  [id |-> Get(full, "id"),
   name |-> Get(full, "name"),
   description |-> Get(full, "description"),
   owner |-> Get(Get(full, "owner"), "display_name"),
   image |-> OrElse(Get(At(Get(full, "images"), 0), "url"), Null),
   tracks |-> [i \in 1..Len(ItemsOf(full).v) |-> TrackEntry(ItemsOf(full).v[i], i)]]

ProjectError == [name |-> "TypeError", message |-> "Cannot read properties"]

\* res.json(slim): JSON.stringify leaves out the properties whose value is
\* undefined (null stays)
ToJsonEntryNulls(e) ==
  [f \in DOMAIN e |-> IF f # "index" /\ e[f].t = "undefined" THEN Null ELSE e[f]]
ToJsonEntry(e) ==
  [f \in { g \in DOMAIN e : g = "index" \/ e[g].t # "undefined" } |-> e[f]]
ToJson(slim) ==
  [f \in { g \in DOMAIN slim : g = "tracks" \/ slim[g].t # "undefined" } |->
     IF f = "tracks"
     THEN [i \in DOMAIN slim.tracks |-> ToJsonEntry(slim.tracks[i])]
     ELSE slim[f]]

\* documents the resource endpoint may answer with
Docs == <<
  JObj([id |-> JStr("p1"), name |-> JStr("Mix"),
        owner |-> JObj([display_name |-> JStr("Alice")]),
        images |-> JArr(<< JObj([url |-> JStr("http://img/x.jpg")]) >>),
        tracks |-> JObj([items |-> JArr(<<
           JObj([track |-> JObj([name |-> JStr("Song"),
                                 artists |-> JArr(<< JObj([name |-> JStr("A")]) >>),
                                 duration_ms |-> JNum(1000),
                                 id |-> JStr("t1")])]) >>)])]),
  JObj([id |-> JStr("p2"),
        tracks |-> JObj([items |-> JArr(<< JObj([track |-> Null]) >>)])]),
  JObj([tracks |-> JObj([items |-> JArr(<< Null >>)])]),
  JObj([id |-> JStr("p4"), images |-> JArr(<< >>),
        tracks |-> JObj([items |-> JArr(<<
           JObj([track |-> JObj([name |-> JStr("Duo"),
                                 artists |-> JArr(<< JObj([name |-> JStr("A")]),
                                                    JObj([name |-> JStr("B")]) >>)])]),
           JStr("x") >>)])]),
  JObj([id |-> JStr("p5")]),
  JObj([tracks |-> JObj([items |-> JArr(<<
           JObj([track |-> JObj([artists |-> JArr(<< Null >>)])]) >>)])])
>>

\* ---------------------------------------------------------------- actions
Goto(r, label) == pc' = [pc EXCEPT ![r] = label]
Send(r, call) == sent' = [sent EXCEPT ![r] = Append(@, call)]

\* An inbound GET /api/playlist/:id with market parameter m: the handler
\* starts and calls getAppToken, which returns the cached token or sends
\* the exchange request (server.js 65-68, 34-51).  The request takes the
\* first free slot.
Arrive(r, m) ==
  /\ pc[r] = "idle"
  /\ \A q \in Slots : q < r => pc[q] # "idle"
  /\ query' = [query EXCEPT ![r] = m]
  /\ IF CacheValid(cachedToken, now, cachedExpiry)
     THEN /\ loc' = [loc EXCEPT ![r] = [InitLoc EXCEPT !.token = cachedToken]]
          /\ Goto(r, "tokenReturned")
          /\ UNCHANGED sent
     ELSE /\ Send(r, TokenPost)
          /\ Goto(r, "awaitTokenFetch")
          /\ UNCHANGED loc
  /\ UNCHANGED << envDefault, grant, cachedToken, cachedExpiry, now, ticks, resp >>

\* await fetch(tokenUrl) settles with a response of status s and body b
\* (server.js 44-53)
TokenFetchDone(r, s, b) ==
  /\ pc[r] = "awaitTokenFetch"
  /\ loc' = [loc EXCEPT ![r].status = s, ![r].body = b,
                        ![r].issued = IF Ok(s) THEN now ELSE 0]
  /\ Goto(r, IF Ok(s) THEN "awaitTokenJson" ELSE "awaitTokenText")
  /\ UNCHANGED << envDefault, grant, cachedToken, cachedExpiry, now, ticks,
                  query, sent, resp >>

\* a failed exchange that also drops the cached credential
TokenTextDoneClears(r) ==
  /\ pc[r] = "awaitTokenText"
  /\ loc' = [loc EXCEPT ![r] =
        [InitLoc EXCEPT !.e = TokenError(loc[r].status, loc[r].body.v)]]
  /\ cachedToken' = NoToken
  /\ cachedExpiry' = 0
  /\ Goto(r, "tokenThrown")
  /\ UNCHANGED << envDefault, grant, now, ticks, query, sent, resp >>

\* a failed exchange that is tried again instead of thrown
TokenTextDoneRetries(r) ==
  /\ pc[r] = "awaitTokenText"
  /\ Send(r, TokenPost)
  /\ loc' = [loc EXCEPT ![r] = InitLoc]
  /\ Goto(r, "awaitTokenFetch")
  /\ UNCHANGED << envDefault, grant, cachedToken, cachedExpiry, now, ticks,
                  query, resp >>

\* await res.text() gives the body; getAppToken throws (server.js 54-55)
TokenTextDone(r) ==
  /\ pc[r] = "awaitTokenText"
  /\ loc' = [loc EXCEPT ![r] =
        [InitLoc EXCEPT !.e = TokenError(loc[r].status, loc[r].body.v)]]
  /\ Goto(r, "tokenThrown")
  /\ UNCHANGED << envDefault, grant, cachedToken, cachedExpiry, now, ticks,
                  query, sent, resp >>

\* a refresh that finds the record already refreshed by another call keeps
\* that record and returns its token
TokenJsonDoneFirstWins(r) ==
  /\ pc[r] = "awaitTokenJson"
  /\ loc[r].body.t = "object"
  /\ LET data == loc[r].body.v
         keep == CacheValid(cachedToken, now, cachedExpiry)
     IN  /\ cachedToken' = IF keep THEN cachedToken ELSE data.access_token
         /\ cachedExpiry' = IF keep THEN cachedExpiry ELSE ExpiryOf(now, data.expires_in)
         /\ grant' = IF keep THEN grant
                     ELSE [issued |-> loc[r].issued, expires_in |-> data.expires_in,
                           written |-> now]
         /\ loc' = [loc EXCEPT ![r] = [InitLoc EXCEPT !.token = cachedToken']]
  /\ Goto(r, "tokenReturned")
  /\ UNCHANGED << envDefault, now, ticks, query, sent, resp >>

\* await res.json() gives data; the record is written and getAppToken
\* returns (server.js 58-61)
TokenJsonDone(r) ==
  /\ pc[r] = "awaitTokenJson"
  /\ loc[r].body.t = "object"
  /\ LET data == loc[r].body.v
     IN  /\ cachedToken' = data.access_token
         /\ cachedExpiry' = ExpiryOf(now, data.expires_in)
         /\ grant' = [issued |-> loc[r].issued, expires_in |-> data.expires_in,
                      written |-> now]
         /\ loc' = [loc EXCEPT ![r] = [InitLoc EXCEPT !.token = data.access_token]]
  /\ Goto(r, "tokenReturned")
  /\ UNCHANGED << envDefault, now, ticks, query, sent, resp >>

\* one of the awaits inside getAppToken rejects (a network failure, or a
\* body that is no JSON): getAppToken throws what the await threw
TokenCallFails(r) ==
  /\ pc[r] \in {"awaitTokenFetch", "awaitTokenText", "awaitTokenJson"}
  /\ loc' = [loc EXCEPT ![r] =
        [InitLoc EXCEPT !.e = IF pc[r] = "awaitTokenJson" /\ loc[r].body.t # "object"
                                THEN JsonError ELSE NetworkError]]
  /\ Goto(r, "tokenThrown")
  /\ UNCHANGED << envDefault, grant, cachedToken, cachedExpiry, now, ticks,
                  query, sent, resp >>

\* await getAppToken() throws inside the handler's try (server.js 68, 105-107)
TokenThrown(r) ==
  /\ pc[r] = "tokenThrown"
  /\ Catch(r, loc[r].e)
  /\ UNCHANGED << envDefault, grant, cachedToken, cachedExpiry, now, ticks,
                  query, sent >>

\* await getAppToken() gives the token: the handler resolves the market and
\* sends the resource GET (server.js 68-77)
TokenReturned(r) ==
  /\ pc[r] = "tokenReturned"
  /\ IF ResolveThrows(query[r])
     THEN /\ Catch(r, NotAFunction)
          /\ UNCHANGED sent
     ELSE /\ Send(r, ResourceGet(ResolveMarket(query[r], DEFAULT_MARKET(envDefault)),
                                 loc[r].token))
          /\ loc' = [loc EXCEPT ![r] = InitLoc]
          /\ Goto(r, "awaitFetch")
          /\ UNCHANGED resp
  /\ UNCHANGED << envDefault, grant, cachedToken, cachedExpiry, now, ticks, query >>

\* await fetch(url) settles with a response of status s and body b
\* (server.js 75-79)
FetchDone(r, s, b) ==
  /\ pc[r] = "awaitFetch"
  /\ loc' = [loc EXCEPT ![r].status = s, ![r].body = b]
  /\ Goto(r, IF Ok(s) THEN "awaitJson" ELSE "awaitText")
  /\ UNCHANGED << envDefault, grant, cachedToken, cachedExpiry, now, ticks,
                  query, sent, resp >>

\* an upstream error answered with a fixed 502
TextDoneBadGateway(r) ==
  /\ pc[r] = "awaitText"
  /\ Respond(r, 502, [error |-> loc[r].body.v])
  /\ UNCHANGED << envDefault, grant, cachedToken, cachedExpiry, now, ticks,
                  query, sent >>

\* an upstream 401 that also drops the cached credential
TextDoneInvalidates(r) ==
  /\ pc[r] = "awaitText"
  /\ Respond(r, loc[r].status, [error |-> loc[r].body.v])
  /\ cachedToken' = IF loc[r].status = 401 THEN NoToken ELSE cachedToken
  /\ cachedExpiry' = IF loc[r].status = 401 THEN 0 ELSE cachedExpiry
  /\ UNCHANGED << envDefault, grant, now, ticks, query, sent >>

\* await r.text() gives msg; the upstream status is passed on (server.js 80-81)
TextDone(r) ==
  /\ pc[r] = "awaitText"
  /\ Respond(r, loc[r].status, [error |-> loc[r].body.v])
  /\ UNCHANGED << envDefault, grant, cachedToken, cachedExpiry, now, ticks,
                  query, sent >>

\* await r.json() gives full; slim is built and sent (server.js 84-104)
JsonDone(r) ==
  /\ pc[r] = "awaitJson"
  /\ loc[r].body.t # "text"
  /\ IF ProjectThrows(loc[r].body)
     THEN Catch(r, ProjectError)
     ELSE \E slim \in { Project(loc[r].body) } : Respond(r, 200, ToJson(slim))
  /\ UNCHANGED << envDefault, grant, cachedToken, cachedExpiry, now, ticks,
                  query, sent >>

\* one of the awaits of the handler itself rejects (a network failure, or a
\* body that is no JSON): caught at the handler's boundary
CallFails(r) ==
  /\ pc[r] \in {"awaitFetch", "awaitText", "awaitJson"}
  /\ Catch(r, IF pc[r] = "awaitJson" /\ loc[r].body.t = "text"
               THEN JsonError ELSE NetworkError)
  /\ UNCHANGED << envDefault, grant, cachedToken, cachedExpiry, now, ticks,
                  query, sent >>

\* the response has been written; the slot is free for a later request
Finish(r) ==
  /\ pc[r] = "done"
  /\ Goto(r, "idle")
  /\ query' = [query EXCEPT ![r] = Undef]
  /\ sent' = [sent EXCEPT ![r] = << >>]
  /\ resp' = [resp EXCEPT ![r] = << >>]
  /\ UNCHANGED << envDefault, grant, cachedToken, cachedExpiry, now, ticks, loc >>

\* the clock advances: by a second, by a little over a minute, or up to the
\* instants around the recorded expiry
TickTargets(clock) ==
  { now + 1000 : x \in clock \cap {"second"} } \cup
  { now + 61000 : x \in clock \cap {"minute"} } \cup
  { cachedExpiry - 1 : x \in clock \cap {"before"} } \cup
  { cachedExpiry : x \in clock \cap {"at"} }

Tick(t) ==
  /\ ticks < MaxTicks
  /\ t > now
  /\ now' = t
  /\ ticks' = ticks + 1
  /\ UNCHANGED << envDefault, grant, cachedToken, cachedExpiry, pc, query, loc, sent, resp >>

\* bodies of the two endpoints' responses: the text of an error answer, the
\* JSON of a success, or a success whose body is no JSON
Text(s) == [t |-> "text", v |-> s]
NotJson == Text("<html>")
TokenData(tok, d) == JObj([access_token |-> tok, expires_in |-> d])
TokenBodies(s, in) ==
  IF Ok(s) THEN { TokenData(tok, d) : tok \in in.tokens, d \in in.expiresIn } \cup in.notJson
           ELSE { Text(x) : x \in in.tokenTexts }
ResourceBodies(s, in) ==
  IF Ok(s) THEN { Docs[i] : i \in in.docs } \cup in.notJson
           ELSE { Text(x) : x \in in.resourceTexts }

\* the steps of the program with the inputs drawn from the sets of `in`
NextWith(in) ==
  \/ \E r \in in.slots, m \in in.markets : Arrive(r, m)
  \/ \E r \in in.slots, s \in in.tokenStatuses :
        \E b \in TokenBodies(s, in) : TokenFetchDone(r, s, b)
  \/ \E r \in in.slots : TokenTextDone(r)
  \/ \E r \in in.slots : TokenJsonDone(r)
  \/ \E r \in in.slots : TokenCallFails(r)
  \/ \E r \in in.slots : TokenThrown(r)
  \/ \E r \in in.slots : TokenReturned(r)
  \/ \E r \in in.slots, s \in in.resourceStatuses :
        \E b \in ResourceBodies(s, in) : FetchDone(r, s, b)
  \/ \E r \in in.slots : TextDone(r)
  \/ \E r \in in.slots : JsonDone(r)
  \/ \E r \in in.slots : CallFails(r)
  \/ \E r \in in.slots : Finish(r)
  \/ \E t \in TickTargets(in.clock) : Tick(t)

\* every input of the model
AllInputs ==
  [slots |-> Slots, envs |-> EnvDefaults, markets |-> Markets,
   tokens |-> Tokens, expiresIn |-> ExpiresIn,
   tokenStatuses |-> TokenStatuses, tokenTexts |-> TokenTexts,
   resourceStatuses |-> ResourceStatuses, resourceTexts |-> ResourceTexts,
   docs |-> 1..Len(Docs), notJson |-> { NotJson },
   clock |-> {"second", "minute", "before", "at"}]

\* One request at a time against the credential record: every token,
\* validity duration, status and body of the token endpoint, one value of
\* each input the record never sees.
CacheInputs ==
  [AllInputs EXCEPT !.slots = { 1 }, !.envs = { Undef },
                    !.markets = { Str(<<"u","s">>) },
                    !.resourceStatuses = { 200, 404 }, !.resourceTexts = { "Not found" },
                    !.docs = { 1 }]

\* Overlapping requests against the credential record: every interleaving
\* of the handlers, two tokens, one validity duration, the clock jumping
\* to the recorded expiry.
OverlapInputs ==
  [CacheInputs EXCEPT !.slots = Slots, !.expiresIn = { 61 },
                      !.tokenTexts = { "invalid_client" },
                      !.notJson = { }, !.clock = {"at"}]

\* One request at a time through the handler: every market, default, status,
\* body and document, one token and validity duration.
RouteInputs ==
  [AllInputs EXCEPT !.slots = { 1 }, !.tokens = { "T1" }, !.expiresIn = { 3600 },
                    !.clock = {"second", "before", "at"}]

\* Overlapping requests with one token: what the liveness of a request
\* depends on (each status class, a document that projects and one that
\* throws, a failing call).
LiveInputs ==
  [OverlapInputs EXCEPT !.tokens = { "T1" }, !.tokenStatuses = { 200, 400 },
                        !.docs = { 3, 5 }]

\* the steps of the request in slot r once it has arrived: a network call of
\* its own settling or failing, or a continuation of its handler running
Progress(r, in) ==
  \/ \E s \in in.tokenStatuses : \E b \in TokenBodies(s, in) : TokenFetchDone(r, s, b)
  \/ TokenTextDone(r)
  \/ TokenJsonDone(r)
  \/ TokenCallFails(r)
  \/ TokenThrown(r)
  \/ TokenReturned(r)
  \/ \E s \in in.resourceStatuses : \E b \in ResourceBodies(s, in) : FetchDone(r, s, b)
  \/ TextDone(r)
  \/ JsonDone(r)
  \/ CallFails(r)

Next == NextWith(AllInputs)
NextCache == NextWith(CacheInputs)
NextRoute == NextWith(RouteInputs)
NextOverlap == NextWith(OverlapInputs)
NextLive == NextWith(LiveInputs)

Spec == InitWith(AllInputs.envs) /\ [][Next]_vars
SpecCache == InitWith(CacheInputs.envs) /\ [][NextCache]_vars
SpecRoute == InitWith(RouteInputs.envs) /\ [][NextRoute]_vars
SpecOverlap == InitWith(OverlapInputs.envs) /\ [][NextOverlap]_vars

\* Every network call settles or fails and the event loop runs every ready
\* continuation: each request's own steps are weakly fair.
SpecLive ==
  /\ InitWith(LiveInputs.envs)
  /\ [][NextLive]_vars
  /\ \A r \in Slots : WF_vars(Progress(r, LiveInputs))

\* ----------------------------------------------------------------- claims
\* the upstream calls of one kind issued for request r so far
Calls(r, kind) == { i \in DOMAIN sent[r] : sent[r][i].to = kind }
\* the step in which the handler of r starts and calls getAppToken
Starts(r) == pc[r] = "idle" /\ pc'[r] # "idle"

\* C1: once an exchange has stored a credential, a getAppToken call that
\* starts strictly before cachedExpiry returns the stored credential and
\* sends nothing to the token endpoint: no request's count of token-endpoint
\* calls grows in that step.
C1_CacheHit ==
  [][\A r \in Slots :
       (Starts(r) /\ cachedToken # NoToken /\ now < cachedExpiry)
         => /\ pc'[r] = "tokenReturned"
            /\ loc'[r].token = cachedToken
            /\ \A q \in Slots : Calls(q, "token")' = Calls(q, "token")
            /\ sent'[r] = << >>]_vars

\* a call was served from the cache one millisecond before the expiry
C1_Witness ==
  \E r \in Slots : /\ pc[r] = "tokenReturned"
                    /\ sent[r] = << >>
                    /\ loc[r].token = cachedToken
                    /\ now = cachedExpiry - 1

\* C2: a getAppToken call that starts at or after cachedExpiry, with no other
\* call in flight, sends exactly one request to the token endpoint, and has
\* sent exactly that one when it returns or fails.
C2_RefreshOnce ==
  /\ [][\A r \in Slots :
          (Starts(r) /\ now >= cachedExpiry)
            => pc'[r] = "awaitTokenFetch" /\ sent'[r] = << TokenPost >>]_vars
  /\ [](\A r \in Slots :
          pc[r] \in {"awaitTokenFetch", "awaitTokenText", "awaitTokenJson", "tokenThrown"}
            => sent[r] = << TokenPost >>)
  /\ [](\A r \in Slots :
          pc[r] = "tokenReturned" => Cardinality(Calls(r, "token")) = Len(sent[r]))

\* a call that started after the expiry of the stored credential has sent
\* its one exchange request
C2_Witness ==
  \E r \in Slots : /\ pc[r] = "awaitTokenFetch"
                    /\ sent[r] = << TokenPost >>
                    /\ cachedToken # NoToken
                    /\ now > cachedExpiry

\* C3: a successful exchange reporting expires_in = d, handled at time t,
\* records cachedExpiry = t + (d - 60) * 1000 ms; a call that starts strictly
\* before the recorded expiry is served from the cache and a call that
\* starts at it or later performs an exchange (for d = 3600: t + 3540 s).
C3_ExpiryArithmetic ==
  [][\A r \in Slots :
       /\ (pc[r] = "awaitTokenJson" /\ pc'[r] = "tokenReturned")
            => /\ cachedExpiry' = now + (loc[r].body.v.expires_in - 60) * 1000
               /\ (loc[r].body.v.expires_in = 3600 => cachedExpiry' = now + 3540000)
       /\ (Starts(r) /\ cachedToken # NoToken)
            => IF now < cachedExpiry
               THEN pc'[r] = "tokenReturned" /\ sent'[r] = << >>
               ELSE pc'[r] = "awaitTokenFetch" /\ sent'[r] = << TokenPost >>]_vars

\* a credential of 3600 s acquired at t = 1 ms: a call at exactly
\* t + 3540 s found it expired and sent an exchange
C3_Witness ==
  \E r \in Slots : /\ pc[r] = "awaitTokenFetch"
                    /\ cachedToken # NoToken
                    /\ cachedExpiry = 1 + 3540000
                    /\ now = cachedExpiry

\* C4: when the token endpoint answers with a non-success status and its
\* body text is read, getAppToken throws an error whose message carries the
\* status and the text, and the record is unchanged by that step; a call
\* that then starts on a stale or empty record sends a new exchange request.
C4_FailedExchange ==
  [][\A r \in Slots :
       /\ (pc[r] = "awaitTokenText" /\ pc'[r] = "tokenThrown")
            => /\ cachedToken' = cachedToken
               /\ cachedExpiry' = cachedExpiry
               /\ \/ loc'[r].e = NetworkError
                  \/ /\ loc'[r].e.name = "Error"
                     /\ loc'[r].e.message = "Erreur token: " \o ToString(loc[r].status)
                                               \o " " \o loc[r].body.v
       /\ (Starts(r) /\ (cachedToken = NoToken \/ now >= cachedExpiry))
            => sent'[r] = << TokenPost >>]_vars

\* an exchange failed with 503 against a stale record, which is still
\* there, while another request is being handled
C4_Witness ==
  \E r \in Slots : /\ pc[r] = "tokenThrown"
                    /\ \E q \in Slots \ {r} : pc[q] # "idle"
                    /\ loc[r].e.message = "Erreur token: 503 invalid_client"
                    /\ cachedToken # NoToken
                    /\ now >= cachedExpiry

\* C5: every getAppToken call that returns leaves a usable record behind at
\* the instant of return: the record's token is present and is the value
\* returned, and the current time is strictly before cachedExpiry.
C5_ReturnedUsable ==
  [][\A r \in Slots :
       (pc[r] # "tokenReturned" /\ pc'[r] = "tokenReturned")
         => /\ cachedToken' # NoToken
            /\ cachedToken' = loc'[r].token
            /\ now' < cachedExpiry']_vars

\* the case C5 fails on: a credential of 60 s has just been returned while
\* the record it left behind is already expired
C5_ExpiredOnReturn ==
  \E r \in Slots : /\ pc[r] = "tokenReturned"
                    /\ sent[r] = << TokenPost >>
                    /\ loc[r].token = cachedToken
                    /\ now >= cachedExpiry

\* C6: the market sent upstream is always a member of the supported set,
\* for every market parameter and every configured default region.
C6_EffectiveSupported ==
  \A r \in Slots : \A i \in Calls(r, "resource") :
    sent[r][i].market \in ALLOWED_MARKETS

\* the case C6 fails on: with DEFAULT_MARKET=xx a request without a usable
\* market was sent upstream with market=XX
C6_UnsupportedSent ==
  \E r \in Slots : \E i \in Calls(r, "resource") :
    /\ envDefault.t = "string" /\ envDefault.v = <<"x", "x">>
    /\ query[r].t = "undefined"
    /\ sent[r][i].market = <<"X", "X">>

\* C7: with default FR, the market sent upstream is the upper-cased market
\* parameter when that is in the supported set and FR otherwise: us gives
\* US, GB gives GB, xx gives FR, an empty and an absent market give FR.
C7_Expected(q) ==
  IF q.t = "string" /\ toUpperCase(q.v) \in ALLOWED_MARKETS
  THEN toUpperCase(q.v) ELSE <<"F", "R">>

C7_RegionResolution ==
  \A r \in Slots : \A i \in Calls(r, "resource") :
    DEFAULT_MARKET(envDefault) = <<"F", "R">>
      => /\ sent[r][i].market = C7_Expected(query[r])
         /\ (query[r].t = "string" /\ query[r].v = <<"u", "s">>
               => sent[r][i].market = <<"U", "S">>)
         /\ (query[r].t = "string" /\ query[r].v = <<"x", "x">>
               => sent[r][i].market = <<"F", "R">>)
         /\ (query[r].t = "undefined" => sent[r][i].market = <<"F", "R">>)

\* market=us was resolved to US under the default FR
C7_Witness ==
  \E r \in Slots : \E i \in Calls(r, "resource") :
    /\ envDefault.t = "undefined"
    /\ query[r].t = "string" /\ query[r].v = <<"u", "s">>
    /\ sent[r][i].market = <<"U", "S">>

\* C8: when the resource GET answers with a non-success status s and its
\* body text b is read, the one response to the caller has status s and
\* body {error: b}; no projected document is sent.
C8_PassThrough ==
  [][\A r \in Slots :
       TextDone(r)
         => /\ ~Ok(loc[r].status)
            /\ Len(resp'[r]) = 1
            /\ resp'[r][1].status = loc[r].status
            /\ DOMAIN resp'[r][1].body = {"error"}
            /\ resp'[r][1].body.error = loc[r].body.v]_vars

\* an upstream 404 "Not found" was answered with 404 and that text
C8_Witness ==
  \E r \in Slots : /\ pc[r] = "done"
                    /\ Len(resp[r]) = 1
                    /\ resp[r][1].status = 404
                    /\ DOMAIN resp[r][1].body = {"error"}
                    /\ resp[r][1].body.error = "Not found"

\* C9: when getAppToken has thrown, the request is answered with status 500
\* and body {error: String(e)}, whatever status the token endpoint gave, and
\* no GET to the resource endpoint is issued for it.
C9_CredentialFailure ==
  [][\A r \in Slots :
       (pc[r] = "tokenThrown" /\ pc'[r] # "tokenThrown")
         => /\ pc'[r] = "done"
            /\ Len(resp'[r]) = 1
            /\ resp'[r][1].status = 500
            /\ DOMAIN resp'[r][1].body = {"error"}
            /\ resp'[r][1].body.error = loc[r].e.name \o ": " \o loc[r].e.message
            /\ sent'[r] = << TokenPost >>]_vars

\* a 400 of the token endpoint was answered with 500 and no resource GET
C9_Witness ==
  \E r \in Slots : /\ pc[r] = "done"
                    /\ Len(resp[r]) = 1
                    /\ resp[r][1].status = 500
                    /\ DOMAIN resp[r][1].body = {"error"}
                    /\ resp[r][1].body.error = "Error: Erreur token: 400 invalid_client"
                    /\ Calls(r, "resource") = {}

\* C10: a request whose handling has completed has exactly one response, a
\* request being handled has none, and the response is 200 with the
\* projected document, the upstream status with {error}, or 500 with
\* {error}; every step that completes a request on a failure (a rejected
\* upstream call, a thrown getAppToken, a market without toUpperCase, a body
\* that is no JSON, a projection that throws) answers 500.
C10_Outcome(r) ==
  LET out == resp[r][1]
  IN  \/ out.status = 200 /\ "tracks" \in DOMAIN out.body
      \/ out.status \in (ResourceStatuses \ {200}) /\ DOMAIN out.body = {"error"}
      \/ out.status = 500 /\ DOMAIN out.body = {"error"}

C10_SingleResponse ==
  /\ [](\A r \in Slots :
          /\ Len(resp[r]) = (IF pc[r] = "done" THEN 1 ELSE 0)
          /\ pc[r] = "done" => C10_Outcome(r))
  /\ [][\A r \in Slots :
          (pc[r] # "done" /\ pc'[r] = "done")
            => /\ pc[r] \in {"tokenThrown", "tokenReturned", "awaitFetch"}
                    => resp'[r][1].status = 500
               /\ pc[r] = "awaitText"
                    => resp'[r][1].status \in {loc[r].status, 500}
               /\ pc[r] = "awaitJson"
                    => IF loc[r].body.t = "text" \/ ProjectThrows(loc[r].body)
                       THEN resp'[r][1].status = 500
                       ELSE resp'[r][1].status \in {200, 500}]_vars

\* a request whose market has no toUpperCase was answered once, with 500
C10_Witness ==
  \E r \in Slots : /\ pc[r] = "done"
                    /\ query[r].t = "array"
                    /\ Len(resp[r]) = 1
                    /\ resp[r][1].status = 500
                    /\ resp[r][1].body.error = "TypeError: toUpperCase is not a function"


\* C11: one inbound request causes at most one request to the token endpoint
\* and at most one GET to the resource endpoint; its upstream calls are added
\* only when its handler starts (the exchange) and when getAppToken has
\* returned (the GET), never after a failure, so a failed call is tried
\* again only by a later request.
C11_NoRetries ==
  /\ [](\A r \in Slots : /\ Cardinality(Calls(r, "token")) <= 1
                          /\ Cardinality(Calls(r, "resource")) <= 1)
  /\ [][\A r \in Slots :
          (Len(sent'[r]) > Len(sent[r]))
            => /\ pc[r] \in {"idle", "tokenReturned"}
               /\ Len(sent'[r]) = Len(sent[r]) + 1]_vars

\* a request whose exchange succeeded and whose resource GET was answered
\* 404 has completed with one call to each endpoint
C11_Witness ==
  \E r \in Slots : /\ pc[r] = "done"
                    /\ resp[r][1].status = 404
                    /\ Len(sent[r]) = 2
                    /\ Cardinality(Calls(r, "token")) = 1
                    /\ Cardinality(Calls(r, "resource")) = 1


\* C12: for every parsed upstream document, malformed ones included (a null
\* track item, a null artist entry), the projection raises nothing and the
\* request is answered 200 with the projected document; items = [{track:
\* null}] gives one track entry that holds index = 1 and nothing else.
C12_ProjectionTotal ==
  [][\A r \in Slots :
       JsonDone(r)
         => /\ resp'[r][1].status = 200
            /\ "tracks" \in DOMAIN resp'[r][1].body
            /\ (Get(loc[r].body, "id") = JStr("p2")
                  => resp'[r][1].body.tracks = << [index |-> 1] >>)]_vars

\* the case C12 fails on: a document was parsed and the request was answered
\* with the TypeError of the projection
C12_ProjectionThrew ==
  \E r \in Slots : /\ pc[r] = "done"
                    /\ resp[r][1].status = 500
                    /\ resp[r][1].body.error = "TypeError: Cannot read properties"


\* the request of slot r met an empty or expired cache, exchanged, and is
\* parsing the p1 document of the scenario
C13_Scenario(r) ==
  /\ JsonDone(r)
  /\ sent[r][1] = TokenPost
  /\ sent[r][2].bearer = "T1"
  /\ Get(loc[r].body, "id") = JStr("p1")

\* C13 (as the code has it): in the end-to-end scenario (token T1, document
\* p1 / Mix / Alice with one image and the track Song by A, 1000 ms, id t1,
\* no preview_url, no external_urls) the answer is 200 with id p1, name Mix,
\* owner Alice, image http://img/x.jpg, no description, and one track entry
\* with index 1, name Song, artist A, duration_ms 1000, id t1 in which
\* preview_url and external_url are left out, like description.
C13_EndToEnd ==
  [][\A r \in Slots :
       C13_Scenario(r)
         => LET body == resp'[r][1].body
            IN  /\ resp'[r][1].status = 200
                /\ DOMAIN body = {"id", "name", "owner", "image", "tracks"}
                /\ body.id = JStr("p1")
                /\ body.name = JStr("Mix")
                /\ body.owner = JStr("Alice")
                /\ body.image = JStr("http://img/x.jpg")
                /\ Len(body.tracks) = 1
                /\ DOMAIN body.tracks[1] = {"index", "name", "artist", "duration_ms", "id"}
                /\ body.tracks[1] = [index |-> 1, name |-> JStr("Song"),
                                     artist |-> JStr("A"),
                                     duration_ms |-> JNum(1000),
                                     id |-> JStr("t1")]]_vars

\* C13 as stated: in that scenario the track entry carries preview_url and
\* external_url with the value null
C13_NullFields ==
  [][\A r \in Slots :
       C13_Scenario(r)
         => LET e == resp'[r][1].body.tracks[1]
            IN  /\ "preview_url" \in DOMAIN e /\ e.preview_url = Null
                /\ "external_url" \in DOMAIN e /\ e.external_url = Null]_vars

C13_Witness ==
  \E r \in Slots : /\ pc[r] = "done"
                    /\ resp[r][1].status = 200
                    /\ sent[r][1] = TokenPost
                    /\ "id" \in DOMAIN resp[r][1].body
                    /\ resp[r][1].body.id = JStr("p1")
                    /\ Len(resp[r][1].body.tracks) = 1


\* the instant the token endpoint lets the cached credential lapse, and the
\* time from its issue to the write of the record
C14_TrueExpiry == grant.issued + grant.expires_in * 1000
C14_Latency == grant.written - grant.issued

\* C14 (as the code has it): when the record was written no more than 60 s
\* after the credential was issued, the record's expiry lies at or before the
\* credential's true expiry and the fast path never returns the credential
\* at or after its true expiry.
C14_MarginCoversLatency ==
  /\ []((cachedToken # NoToken /\ C14_Latency <= 60000)
          => cachedExpiry <= C14_TrueExpiry)
  /\ [][\A r \in Slots :
          (pc[r] = "idle" /\ pc'[r] = "tokenReturned" /\ C14_Latency <= 60000)
            => now < C14_TrueExpiry]_vars

\* C14 as stated: whatever the latency of the exchange, the fast path never
\* returns the credential at or after its true expiry
C14_AnyLatency ==
  [][\A r \in Slots :
       (pc[r] = "idle" /\ pc'[r] = "tokenReturned") => now < C14_TrueExpiry]_vars

C14_Witness ==
  \E r \in Slots : /\ pc[r] = "tokenReturned"
                    /\ sent[r] = << >>
                    /\ C14_Latency > 0
                    /\ C14_Latency <= 60000


\* C15: when several getAppToken calls all miss the cache, each performs at
\* most one exchange; a call whose exchange succeeds returns the credential of
\* its own exchange and writes the token and the expiry of that exchange
\* together; the record changes in no other step, so it holds the pair
\* written by the last exchange to complete.
C15_OverlappingRefreshes ==
  /\ [](\A r \in Slots : Cardinality(Calls(r, "token")) <= 1)
  /\ [][\A r \in Slots :
          (pc[r] = "awaitTokenJson" /\ pc'[r] = "tokenReturned")
            => /\ loc'[r].token = loc[r].body.v.access_token
               /\ cachedToken' = loc[r].body.v.access_token
               /\ cachedExpiry' = now + (loc[r].body.v.expires_in - 60) * 1000]_vars
  /\ [][(cachedToken' # cachedToken \/ cachedExpiry' # cachedExpiry)
          => \E r \in Slots : pc[r] = "awaitTokenJson" /\ pc'[r] = "tokenReturned"]_vars

\* two calls missed the cache together, both exchanged, and each holds the
\* token of its own exchange after the later one has overwritten the record
C15_Witness ==
  \E r, q \in Slots :
     /\ r # q
     /\ pc[r] = "tokenReturned" /\ pc[q] = "tokenReturned"
     /\ sent[r] = << TokenPost >> /\ sent[q] = << TokenPost >>
     /\ loc[r].token # loc[q].token
     /\ cachedToken = loc[q].token


\* C16: whatever the market parameter is (absent, empty, unsupported, a list
\* from a repeated parameter), once the token is there the handler goes on to
\* the resource GET, with the parameter's supported upper-case form or else
\* the default market; no market value ends the request with an error.
C16_NeverRejects ==
  [][\A r \in Slots :
       (pc[r] = "tokenReturned" /\ pc'[r] # "tokenReturned")
         => /\ pc'[r] = "awaitFetch"
            /\ resp'[r] = << >>
            /\ sent'[r][Len(sent'[r])].market \in
                  ALLOWED_MARKETS \cup { DEFAULT_MARKET(envDefault) }]_vars

\* the case C16 fails on: the token was there, the market was a list, and
\* the request was answered 500 without any resource GET
C16_ListRejected ==
  \E r \in Slots : /\ pc[r] = "done"
                    /\ query[r].t = "array"
                    /\ Calls(r, "resource") = { }
                    /\ resp[r][1].status = 500
                    /\ resp[r][1].body = [error |-> StringOfError(NotAFunction)]


\* C17: a parsed document whose tracks.items is a list of n items (none, when
\* tracks or items is missing) is answered with exactly n track entries, in
\* upstream order, the k-th carrying index = k.
C17_SequenceShape ==
  [][\A r \in Slots :
       (JsonDone(r) /\ ItemsOf(loc[r].body).t = "array")
         => LET items == ItemsOf(loc[r].body).v
                body == resp'[r][1].body
            IN  /\ "tracks" \in DOMAIN body
                /\ Len(body.tracks) = Len(items)
                /\ \A k \in 1..Len(items) :
                      /\ body.tracks[k].index = k
                      /\ Get(Get(items[k], "track"), "name").t = "string"
                            => body.tracks[k].name = Get(Get(items[k], "track"), "name")]_vars

\* the case C17 fails on: the parsed document has a list of items and its
\* projection throws, so no track sequence is produced
C17_ListNotProjected ==
  \E r \in Slots : /\ pc[r] = "awaitJson"
                    /\ loc[r].body.t = "object"
                    /\ ItemsOf(loc[r].body).t = "array"
                    /\ Len(ItemsOf(loc[r].body).v) >= 1
                    /\ ProjectThrows(loc[r].body)


\* C18: cachedToken and cachedExpiry change only in the step that completes
\* a successful exchange; every step that answers a request (an upstream
\* error such as 401 included) leaves both as they were, so a credential the
\* resource endpoint has rejected is still the valid cached one afterwards.
C18_RecordFrame ==
  /\ [][(cachedToken' # cachedToken \/ cachedExpiry' # cachedExpiry)
          => \E r \in Slots : /\ pc[r] = "awaitTokenJson"
                               /\ Ok(loc[r].status)
                               /\ pc'[r] = "tokenReturned"]_vars
  /\ [][\A r \in Slots :
          (pc[r] # "done" /\ pc'[r] = "done")
            => /\ cachedToken' = cachedToken
               /\ cachedExpiry' = cachedExpiry
               /\ CacheValid(cachedToken, now, cachedExpiry)
                    => CacheValid(cachedToken', now', cachedExpiry')]_vars

\* a request that carried the cached credential was answered 401 and the
\* credential is still the cached one, still valid
C18_Witness ==
  \E r \in Slots : /\ pc[r] = "done"
                    /\ resp[r][1].status = 401
                    /\ sent[r][Len(sent[r])].bearer = cachedToken
                    /\ CacheValid(cachedToken, now, cachedExpiry)


\* C19: when every network call settles or fails, every request that has
\* arrived is eventually answered; a pending request always has a step of
\* its own to take, whatever the other requests are doing.
C19_EventuallyAnswered ==
  /\ \A r \in Slots : (pc[r] # "idle") ~> (pc[r] = "done" /\ Len(resp[r]) = 1)
  /\ [](\A r \in Slots :
          pc[r] \notin {"idle", "done"} => ENABLED <<Progress(r, LiveInputs)>>_vars)

\* one request has been answered while another, which met the same empty
\* cache, is still waiting for the token endpoint
C19_Witness ==
  \E r, q \in Slots : /\ r # q
                       /\ pc[r] = "done"
                       /\ resp[r][1].status = 200
                       /\ pc[q] = "awaitTokenFetch"

====
